---- MODULE Spec2Model ----
(***************************************************************************)
(* The heartbeat-and-probe daemon of option-5-docker/src/monitor.py:       *)
(* ContainerMonitor (construction, send_heartbeat, send_target_metrics,    *)
(* the /health endpoint, run, stop) and the module-level signal_handler.   *)
(*                                                                         *)
(* The main thread is a program counter pc over the statements of          *)
(* __main__, __init__ and run(); the Flask thread serves /health requests  *)
(* concurrently; signals and stop() calls arrive from outside.             *)
(*                                                                         *)
(* Time is the variable now.  It advances only when time.sleep returns, so *)
(* every timestamp taken inside one tick is the same and a probe's         *)
(* measured duration is 0 at this resolution.                              *)
(***************************************************************************)
EXTENDS Integers, Sequences, FiniteSets, TLC

\* ------------------------------------------------------------------ bounds

\* Longest MONITOR_TARGETS value of Spec, in comma-separated tokens.
MaxTokens == 2
\* The clock stops sleeps from returning once now reaches MaxTime.
MaxTime == 2
\* Number of targets of the large configuration of SpecBatch.
MaxBatchTargets == 11

\* ------------------------------------------------------- program constants

\* range(0, len(metrics), 20) and metrics[i:i+20]
BatchSize == 20

\* ----------------------------------------------------------------- values

\* Python's None, and a present value: an optional is a sequence of length <= 1.
None == << >>
Some(x) == << x >>

Min(a, b) == IF a < b THEN a ELSE b

Hosts == {"h1", "h2"}
\* A token of MONITOR_TARGETS.split(',') that strip() leaves empty.
Blank == ""
Tokens == Hosts \cup {Blank}

Range(s) == {s[k] : k \in 1..Len(s)}

\* All sequences over S of length at most n.
SeqsUpTo(S, n) == UNION {[1..k -> S] : k \in 0..n}

\* n copies of x.
Copies(x, n) == [k \in 1..n |-> x]

\* Outcome of the credential inputs: the access key or the secret is unset,
\* both are set but list_metrics rejects them, or list_metrics accepts them.
Credentials == {"missing", "invalid", "valid"}

\* HEARTBEAT_INTERVAL after int(): any integer is accepted.
Intervals == {-1, 0, 1}

\* _parse_targets: split on ',', strip each token, drop the empty ones.
\* No token is dropped for being a repetition of an earlier one.
_parse_targets(targets_str) == SelectSeq(targets_str, LAMBDA t : t # Blank)

VARIABLES
    env,            \* the environment variables the process was started with
    pc,             \* position of the main thread
    exit_code,      \* None while the process lives, Some(code) once it has exited
    running,        \* self.running
    start_time,     \* self.start_time
    last_heartbeat, \* self.last_heartbeat (None or Some(time))
    target_status,  \* self.target_status: dict target -> entry
    now,            \* the wall clock
    current_time,   \* send_target_metrics: current_time
    metrics,        \* send_target_metrics: metrics
    t_idx,          \* send_target_metrics: index of the next target of the for loop
    i,              \* send_target_metrics: i of range(0, len(metrics), 20)
    in_try,         \* run: control is inside the try block of the monitoring loop
    health_thread,  \* run: the Flask thread has been started
    signal_at,      \* pc at which a termination signal was delivered ("none" if not)
    put,            \* the put_metric_data call made by the step just taken, if any
    batches,        \* the put_metric_data calls of the send_target_metrics in progress
    response,       \* the /health response produced by the step just taken, if any
    exposition,     \* the /metrics body produced by the step just taken, if any
    probed,         \* the probe made by the step just taken, if any: target and outcome
    last_attempt,   \* the time of the latest call of send_heartbeat, if any
    scrape          \* the /metrics request in progress, if any: the size of
                    \* self.target_status when its iterator was made

vars == << env, pc, exit_code, running, start_time, last_heartbeat, target_status,
           now, current_time, metrics, t_idx, i, in_try, health_thread, signal_at, put,
           batches, response, exposition, probed, last_attempt, scrape >>

\* self.config, as _load_config builds it from the environment.
config == [ monitor_targets        |-> _parse_targets(env.MONITOR_TARGETS),
            heartbeat_interval     |-> env.HEARTBEAT_INTERVAL,
            target_port            |-> env.TARGET_PORT,
            target_timeout         |-> env.TARGET_TIMEOUT,
            enable_health_endpoint |-> env.ENABLE_HEALTH_ENDPOINT,
            health_port            |-> env.HEALTH_PORT ]

\* The empty dict.
EmptyDict == [h \in {} |-> 0]

\* d[k] = v on a Python dict.
DictSet(d, k, v) == [h \in (DOMAIN d) \cup {k} |-> IF h = k THEN v ELSE d[h]]

\* --------------------------------------------------------- metric points

Point(name, target, value, unit, ts) ==
    [ MetricName |-> name, TargetIP |-> target, Value |-> value, Unit |-> unit,
      Timestamp |-> ts ]

\* A heartbeat that carries the liveness point alone.
HeartbeatMetricsSingle(ts, uptime) ==
    << [ MetricName |-> "ContainerHeartbeat", TargetIP |-> << >>, Value |-> 1,
         Unit |-> "Count", Timestamp |-> ts ] >>

\* send_heartbeat: the metrics list.
HeartbeatMetrics(ts, uptime) ==
    << Point("ContainerHeartbeat", None, 1, "Count", ts),
       Point("ContainerUptime", None, uptime, "Seconds", ts) >>

\* send_target_metrics: the points appended for one probed target.
TargetMetrics(target, is_online, response_time, ts) ==
    << Point("TargetStatus", Some(target), IF is_online THEN 1 ELSE 0, "Count", ts) >>
    \o (IF is_online
          THEN << Point("TargetResponseTime", Some(target), response_time,
                        "Milliseconds", ts) >>
          ELSE << >>)

\* A key that is the target with its port appended.
StatusKeyWithPort(target) == "h1:80"

\* send_target_metrics line 183: the key under which a probed target is
\* stored in self.target_status.
StatusKey(target) == target

\* An entry that records every target as offline.
StatusEntryOffline(is_online, response_time, ts) ==
    [ online |-> FALSE, response_time |-> response_time, last_check |-> ts ]

StatusEntry(is_online, response_time, ts) ==
    [ online |-> is_online, response_time |-> response_time, last_check |-> ts ]

\* A slice one point too long.
BatchOfInclusive(m, k) == SubSeq(m, k + 1, Min(k + BatchSize + 1, Len(m)))

\* metrics[i:i+20]
BatchOf(m, k) == SubSeq(m, k + 1, Min(k + BatchSize, Len(m)))

\* range(0, len(metrics), 20): the i after k.
NextBatchStart(k) == k + BatchSize

\* A put_metric_data call and whether the sink accepted it.
PutCall(data, ok) == [ MetricData |-> data, ok |-> ok ]

\* ------------------------------------------------------------ main thread

\* 'monitor' in globals(): the assignment monitor = ContainerMonitor() has run.
MonitorBound == pc \notin {"load_config", "init_client"}

\* The process ends with the given status.
Exit(code) ==
    /\ pc' = "exited"
    /\ exit_code' = Some(code)

\* A run() without the assignment of its finally clause.
FinallyKeepsFlag ==
    /\ pc' = "stopped"
    /\ UNCHANGED running

\* run: the finally clause, after which run() returns.
Finally ==
    /\ running' = FALSE
    /\ pc' = "stopped"

\* _load_config line 90: both AWS_ACCESS_KEY_ID and AWS_SECRET_ACCESS_KEY are set.
KeysSet(credentials) == credentials # "missing"

\* A credential test that accepts whatever it is given.
ListMetricsUnchecked(credentials) == TRUE

\* __init__ line 52: list_metrics(MaxRecords=1) returns without raising.
ListMetricsSucceeds(credentials) == credentials = "valid"

\* __init__ line 36-41: _load_config, then the fields.
load_config ==
    /\ pc = "load_config"
    /\ IF ~KeysSet(env.AWS_CREDENTIALS)
         THEN /\ Exit(1)
              /\ UNCHANGED << running, start_time, last_heartbeat, target_status >>
         ELSE /\ pc' = "init_client"
              /\ running' = FALSE
              /\ start_time' = now
              /\ last_heartbeat' = None
              /\ target_status' = EmptyDict
              /\ UNCHANGED exit_code
    /\ put' = None
    /\ probed' = None
    /\ response' = None
    /\ exposition' = None
    /\ UNCHANGED << env, scrape, last_attempt, now, current_time, metrics, t_idx, i, in_try, health_thread,
                    signal_at, batches >>

\* __init__ line 44-62: create the client and test the credentials.
init_client ==
    /\ pc = "init_client"
    /\ IF ~ListMetricsSucceeds(env.AWS_CREDENTIALS)
         THEN Exit(1)
         ELSE /\ pc' = "run"
              /\ UNCHANGED exit_code
    /\ put' = None
    /\ probed' = None
    /\ response' = None
    /\ exposition' = None
    /\ UNCHANGED << env, scrape, last_attempt, running, start_time, last_heartbeat, target_status, now,
                    current_time, metrics, t_idx, i, in_try, health_thread, signal_at,
                    batches >>

\* run line 278.
run_begin ==
    /\ pc = "run"
    /\ running' = TRUE
    /\ pc' = "start_health"
    /\ put' = None
    /\ probed' = None
    /\ response' = None
    /\ exposition' = None
    /\ UNCHANGED << env, scrape, last_attempt, exit_code, start_time, last_heartbeat, target_status, now,
                    current_time, metrics, t_idx, i, in_try, health_thread, signal_at,
                    batches >>

\* A run() that starts the status server whatever the configuration says.
HealthThreadAlways == TRUE

\* run line 281: the Flask thread is created and started only under
\* if self.config['enable_health_endpoint'].
HealthThreadStarted == config.enable_health_endpoint

\* run line 281-284.
start_health_thread ==
    /\ pc = "start_health"
    /\ health_thread' = HealthThreadStarted
    /\ pc' = "heartbeat"
    /\ put' = None
    /\ probed' = None
    /\ response' = None
    /\ exposition' = None
    /\ UNCHANGED << env, scrape, last_attempt, exit_code, running, start_time, last_heartbeat, target_status,
                    now, current_time, metrics, t_idx, i, in_try, signal_at, batches >>

\* A run() that never sweeps the targets.
AfterHeartbeatNoSweep == "loop_check"

\* Where run() goes after send_heartbeat returns (line 288 and 303).
AfterHeartbeat == IF config.monitor_targets # << >> THEN "sweep" ELSE "loop_check"

\* A heartbeat that stamps self.last_heartbeat whether or not the call
\* succeeded.
HeartbeatStampAlways(ok, ts) == <<ts>>

\* A failed heartbeat that makes run() skip the sweep of the tick.
HeartbeatFailureSkipsSweep(ok) ==
    IF ok /\ config.monitor_targets # << >> THEN "sweep" ELSE "loop_check"

\* send_heartbeat line 147-148: the except clause logs the failure and the
\* function returns normally, so run() goes on as after a success.
AfterHeartbeatCall(ok) == AfterHeartbeat

\* send_heartbeat: self.last_heartbeat after the put_metric_data call.
HeartbeatStamp(ok, ts) == IF ok THEN Some(ts) ELSE last_heartbeat

\* send_heartbeat (line 110-148), called at line 287 and line 300.
send_heartbeat ==
    /\ pc = "heartbeat"
    /\ \E ok \in BOOLEAN :
         /\ put' = Some(PutCall(HeartbeatMetrics(now, now - start_time), ok))
         /\ last_heartbeat' = HeartbeatStamp(ok, now)
         /\ pc' = AfterHeartbeatCall(ok)
    /\ last_attempt' = Some(now)
    /\ probed' = None
    /\ response' = None
    /\ exposition' = None
    /\ UNCHANGED << env, scrape, exit_code, running, start_time, target_status, now,
                    current_time, metrics, t_idx, i, in_try, health_thread, signal_at,
                    batches >>

RECURSIVE StoredPoints(_)
\* The points of the stored results of the previous sweep, for the first k
\* targets, with the timestamps they were built with.
StoredPoints(k) ==
    IF k = 0
      THEN << >>
      ELSE LET h == config.monitor_targets[k]
           IN  StoredPoints(k - 1) \o
                 (IF h \in DOMAIN target_status
                    THEN TargetMetrics(h, target_status[h].online,
                                       target_status[h].response_time,
                                       target_status[h].last_check)
                    ELSE << >>)

\* A sweep that starts from the points of the previous sweep.
InitialMetricsRetry == StoredPoints(Len(config.monitor_targets))

\* send_target_metrics line 177: metrics = [], a list local to the call.
InitialMetrics == << >>

\* send_target_metrics line 172-177.
sweep_begin ==
    /\ pc = "sweep"
    /\ IF config.monitor_targets = << >>
         THEN /\ pc' = "loop_check"
              /\ UNCHANGED << current_time, metrics, t_idx, batches >>
         ELSE /\ pc' = "probe"
              /\ current_time' = now
              /\ metrics' = InitialMetrics
              /\ t_idx' = 1
              /\ batches' = << >>
    /\ put' = None
    /\ probed' = None
    /\ response' = None
    /\ exposition' = None
    /\ UNCHANGED << env, scrape, last_attempt, exit_code, running, start_time, last_heartbeat, target_status,
                    now, i, in_try, health_thread, signal_at >>

\* What one connection attempt can come to: connect_ex returns 0, connect_ex
\* returns an error number (refused, timed out, unreachable), or a call of
\* the try block raises (host name not resolved, socket error, a timeout
\* or port the socket module does not accept).
Outcomes == {"connected", "errno", "raised"}

\* The outcomes the configured port and timeout leave possible:
\* settimeout raises ValueError for a negative timeout, connect_ex raises
\* OverflowError for a port outside 0..65535, and a connection to port 0 or
\* with timeout 0 (a non-blocking socket) is not complete when connect_ex
\* returns.
ProbeOutcomes ==
    IF config.target_timeout < 0 \/ config.target_port \notin 0..65535
      THEN {"raised"}
      ELSE IF config.target_timeout = 0 \/ config.target_port = 0
             THEN {"errno", "raised"}
             ELSE Outcomes

\* A check without the except clause: an exception leaves the function.
CheckTargetUncaught(target, outcome) ==
    [ is_online |-> outcome = "connected", response_time |-> (now - now) * 1000,
      raised |-> outcome = "raised" ]

\* check_target_connectivity (line 150-168): every outcome, an exception
\* included, is returned as (is_online, duration); nothing is raised.
check_target_connectivity(target, outcome) ==
    [ is_online |-> outcome = "connected", response_time |-> (now - now) * 1000,
      raised |-> FALSE ]

\* send_target_metrics line 179-214: one iteration of the for loop.
probe_target ==
    /\ pc = "probe"
    /\ \E outcome \in ProbeOutcomes :
         LET target == config.monitor_targets[t_idx]
             r == check_target_connectivity(target, outcome)
         IN  /\ probed' = Some([target |-> target, outcome |-> outcome])
             /\ IF r.raised
                  THEN \* an exception inside the try of line 175: line 229
                       /\ pc' = "sweep_done"
                       /\ UNCHANGED << target_status, metrics, t_idx, i >>
                  ELSE /\ target_status' =
                            DictSet(target_status, StatusKey(target),
                                    StatusEntry(r.is_online, r.response_time,
                                                current_time))
                       /\ metrics' = metrics \o TargetMetrics(target, r.is_online,
                                                    r.response_time, current_time)
                       /\ t_idx' = t_idx + 1
                       /\ IF t_idx = Len(config.monitor_targets)
                            THEN /\ pc' = "emit"
                                 /\ i' = 0
                            ELSE /\ pc' = "probe"
                                 /\ UNCHANGED i
    /\ put' = None
    /\ response' = None
    /\ exposition' = None
    /\ UNCHANGED << env, scrape, last_attempt, exit_code, running, start_time, last_heartbeat, now,
                    current_time, in_try, health_thread, signal_at, batches >>

\* An exception of put_metric_data that reaches run(): its except clause
\* logs it and the loop is over.
BatchFailurePropagates == "stopped"

\* send_target_metrics: where control goes when put_metric_data raises
\* (the except clause of line 229, then the function returns).
AfterBatchFailure == "sweep_done"

\* send_target_metrics: where control goes when the call for the batch at k
\* returned.
AfterBatchSuccess(k) ==
    IF NextBatchStart(k) < Len(metrics) THEN "emit" ELSE "sweep_done"

\* send_target_metrics line 216-230: one iteration of the batch loop.
submit_batch ==
    /\ pc = "emit"
    /\ \E ok \in BOOLEAN :
         LET call == PutCall(BatchOf(metrics, i), ok)
         IN  /\ put' = Some(call)
             /\ batches' = Append(batches, call)
             /\ IF ok
                  THEN /\ i' = NextBatchStart(i)
                       /\ pc' = AfterBatchSuccess(i)
                  ELSE /\ pc' = AfterBatchFailure
                       /\ UNCHANGED i
    /\ probed' = None
    /\ response' = None
    /\ exposition' = None
    /\ UNCHANGED << env, scrape, last_attempt, exit_code, running, start_time, last_heartbeat, target_status,
                    now, current_time, metrics, t_idx, in_try, health_thread,
                    signal_at >>

\* send_target_metrics line 225-230: log the outcome and return to run();
\* the locals of the call are gone.
sweep_return ==
    /\ pc = "sweep_done"
    /\ pc' = "loop_check"
    /\ current_time' = 0
    /\ metrics' = << >>
    /\ t_idx' = 0
    /\ i' = 0
    /\ batches' = << >>
    /\ put' = None
    /\ probed' = None
    /\ response' = None
    /\ exposition' = None
    /\ UNCHANGED << env, scrape, last_attempt, exit_code, running, start_time, last_heartbeat, target_status,
                    now, in_try, health_thread, signal_at >>

\* A loop that does not test the flag: while True.
WhileTrue == TRUE

\* run line 293: the condition of while self.running.
WhileRunning == running

\* run line 293: while self.running.
loop_check ==
    /\ pc = "loop_check"
    /\ in_try' = TRUE
    /\ IF WhileRunning
         THEN /\ pc' = "sleep"
              /\ UNCHANGED running
         ELSE Finally
    /\ put' = None
    /\ probed' = None
    /\ response' = None
    /\ exposition' = None
    /\ UNCHANGED << env, scrape, last_attempt, exit_code, start_time, last_heartbeat, target_status, now,
                    current_time, metrics, t_idx, i, health_thread, signal_at,
                    batches >>

\* time.sleep raises ValueError for a negative length.
SleepRaises(secs) == secs < 0

\* run line 294: time.sleep(heartbeat_interval).  A ValueError is caught at
\* line 308 and the finally clause ends the loop.
sleep ==
    /\ pc = "sleep"
    /\ IF SleepRaises(config.heartbeat_interval)
         THEN /\ Finally
              /\ UNCHANGED now
         ELSE /\ now < MaxTime
              /\ now' = now + 1
              /\ pc' = "wake_check"
              /\ UNCHANGED running
    /\ put' = None
    /\ probed' = None
    /\ response' = None
    /\ exposition' = None
    /\ UNCHANGED << env, scrape, last_attempt, exit_code, start_time, last_heartbeat, target_status,
                    current_time, metrics, t_idx, i, in_try, health_thread, signal_at,
                    batches >>

\* run line 296-297: if not self.running: break.
wake_check ==
    /\ pc = "wake_check"
    /\ IF ~running
         THEN Finally
         ELSE /\ pc' = "heartbeat"
              /\ UNCHANGED running
    /\ put' = None
    /\ probed' = None
    /\ response' = None
    /\ exposition' = None
    /\ UNCHANGED << env, scrape, last_attempt, exit_code, start_time, last_heartbeat, target_status, now,
                    current_time, metrics, t_idx, i, in_try, health_thread, signal_at,
                    batches >>

\* run() has returned and the script ends.
process_exit ==
    /\ pc = "stopped"
    /\ Exit(0)
    /\ put' = None
    /\ probed' = None
    /\ response' = None
    /\ exposition' = None
    /\ UNCHANGED << env, scrape, last_attempt, running, start_time, last_heartbeat, target_status, now,
                    current_time, metrics, t_idx, i, in_try, health_thread, signal_at,
                    batches >>

\* ----------------------------------------------------- stop and signals

\* ContainerMonitor.stop (line 314-317): the value it gives self.running.
StopFlag == FALSE

\* ContainerMonitor.stop called from a thread other than the main thread.
stop ==
    /\ MonitorBound
    /\ pc # "exited"
    /\ running' = StopFlag
    /\ put' = None
    /\ probed' = None
    /\ response' = None
    /\ exposition' = None
    /\ UNCHANGED << env, scrape, last_attempt, pc, exit_code, start_time, last_heartbeat, target_status, now,
                    current_time, metrics, t_idx, i, in_try, health_thread, signal_at,
                    batches >>

\* A handler that returned without raising: the interrupted statement resumes.
HandlerReturns(at) == at

\* signal_handler line 324: sys.exit(0) raises SystemExit at the statement
\* the signal interrupted, whichever statement that is.
HandlerExits(at) == "unwinding"

\* signal_handler (line 319-324), run by the main thread between two of
\* its statements on SIGTERM or SIGINT.
signal_handler ==
    /\ pc # "exited"
    /\ signal_at = "none"
    /\ signal_at' = pc
    /\ running' = IF MonitorBound THEN StopFlag ELSE running
    /\ pc' = HandlerExits(pc)
    /\ put' = None
    /\ probed' = None
    /\ response' = None
    /\ exposition' = None
    /\ UNCHANGED << env, scrape, last_attempt, exit_code, start_time, last_heartbeat, target_status, now,
                    current_time, metrics, t_idx, i, in_try, health_thread, batches >>

\* SystemExit propagates: no except clause catches it (it is no Exception),
\* the finally clause of run() runs if the try block had been entered, and
\* the process exits with status 0.
unwind ==
    /\ pc = "unwinding"
    /\ running' = IF in_try THEN FALSE ELSE running
    /\ Exit(0)
    /\ put' = None
    /\ probed' = None
    /\ response' = None
    /\ exposition' = None
    /\ UNCHANGED << env, scrape, last_attempt, start_time, last_heartbeat, target_status, now, current_time,
                    metrics, t_idx, i, in_try, health_thread, signal_at, batches >>

\* ---------------------------------------------------------- status server

\* A status that also asks for a delivered heartbeat and reachable targets.
HealthStatusStrict ==
    IF /\ running
       /\ last_heartbeat # None
       /\ \A h \in DOMAIN target_status : target_status[h].online
      THEN "healthy" ELSE "unhealthy"

\* health(): the 'status' field.
HealthStatus == IF running THEN "healthy" ELSE "unhealthy"

\* A document whose target_status is null whenever the mapping is empty.
HealthDataNullWhenEmpty ==
    [ status         |-> HealthStatus,
      uptime_seconds |-> now - start_time,
      last_heartbeat |-> last_heartbeat,
      target_status  |-> IF target_status # EmptyDict
                           THEN Some(target_status) ELSE None,
      timestamp      |-> now ]

\* health(): the health_data document (line 241-248).
HealthData ==
    [ status         |-> HealthStatus,
      uptime_seconds |-> now - start_time,
      last_heartbeat |-> last_heartbeat,
      target_status  |-> IF config.monitor_targets # << >>
                           THEN Some(target_status) ELSE None,
      timestamp      |-> now ]

\* run_health_endpoint line 267-270: app.run binds the port; a port outside
\* 0..65535 raises, the exception is logged and the thread ends.
Listening == config.health_port \in 0..65535

\* The Flask thread (a daemon thread: it ends with the process) accepts
\* requests.
Serving ==
    /\ health_thread
    /\ Listening
    /\ pc # "exited"

\* A /health handler that hands the mapping over and empties it.
HealthDrains ==
    /\ Serving
    /\ response' = Some(HealthData)
    /\ target_status' = EmptyDict
    /\ exposition' = None
    /\ put' = None
    /\ probed' = None
    /\ UNCHANGED << env, scrape, last_attempt, pc, exit_code, running, start_time, last_heartbeat,
                    now, current_time, metrics, t_idx, i, in_try,
                    health_thread, signal_at, batches >>

\* GET /health served by the Flask thread (a daemon thread: it ends with
\* the process).  The handler reads the live self.target_status and
\* serialises it; jsonify sorts the keys, for which the encoder first copies
\* the items of the dict in one call, so the read is one step.
health ==
    /\ Serving
    /\ response' = Some(HealthData)
    /\ exposition' = None
    /\ put' = None
    /\ probed' = None
    /\ UNCHANGED << env, scrape, last_attempt, pc, exit_code, running, start_time, last_heartbeat,
                    target_status, now, current_time, metrics, t_idx, i, in_try,
                    health_thread, signal_at, batches >>

\* One line of the /metrics body: the gauge, its target label and its value.
Gauge(name, target, value) == [ name |-> name, target |-> target, value |-> value ]

\* metrics(): the lines of the body (line 254-263).  The order of the lines
\* is left out.
MetricsLines ==
    { Gauge("container_heartbeat", None, 1),
      Gauge("container_uptime_seconds", None, now - start_time) }
    \cup { Gauge("target_status", Some(h), IF target_status[h].online THEN 1 ELSE 0) :
             h \in DOMAIN target_status }
    \cup { Gauge("target_response_time_ms", Some(h), target_status[h].response_time) :
             h \in {g \in DOMAIN target_status : target_status[g].online} }

\* The response of /metrics: its status code and the lines of its body.
MetricsResponse(code, lines) == [ status |-> code, lines |-> lines ]

\* The dict iterator's check on each step (dictionary changed size during
\* iteration): the size of the dict is not the one the iterator was made
\* with.  The RuntimeError leaves metrics() and Flask answers 500.
DictChangedSize(used) == Cardinality(DOMAIN target_status) # used

\* GET /metrics, line 253-260: the handler builds the two container lines
\* and makes the iterator of self.target_status.items().  The main thread
\* may run between this step and the iteration.
metrics_begin ==
    /\ Serving
    /\ scrape = None
    /\ scrape' = Some(Cardinality(DOMAIN target_status))
    /\ exposition' = None
    /\ response' = None
    /\ put' = None
    /\ probed' = None
    /\ UNCHANGED << env, last_attempt, pc, exit_code, running, start_time,
                    last_heartbeat, target_status, now, current_time, metrics, t_idx,
                    i, in_try, health_thread, signal_at, batches >>

\* A /metrics handler that records the scrape as a heartbeat.
MetricsViewStamps ==
    /\ Serving
    /\ scrape # None
    /\ scrape' = None
    /\ exposition' = Some(MetricsResponse(200, MetricsLines))
    /\ last_heartbeat' = Some(now)
    /\ response' = None
    /\ put' = None
    /\ probed' = None
    /\ UNCHANGED << env, last_attempt, pc, exit_code, running, start_time,
                    target_status, now, current_time, metrics, t_idx,
                    i, in_try, health_thread, signal_at, batches >>

\* GET /metrics, line 260-265: the for loop over the iterator and the
\* response, taken as one step.
metrics_view ==
    /\ Serving
    /\ scrape # None
    /\ scrape' = None
    /\ exposition' = Some(IF DictChangedSize(scrape[1])
                            THEN MetricsResponse(500, {})
                            ELSE MetricsResponse(200, MetricsLines))
    /\ response' = None
    /\ put' = None
    /\ probed' = None
    /\ UNCHANGED << env, last_attempt, pc, exit_code, running, start_time,
                    last_heartbeat, target_status, now, current_time, metrics, t_idx,
                    i, in_try, health_thread, signal_at, batches >>

\* ----------------------------------------------------------- specification

\* The environments of Spec.
Envs ==
    [ AWS_CREDENTIALS        : Credentials,
      MONITOR_TARGETS        : SeqsUpTo(Tokens, MaxTokens),
      HEARTBEAT_INTERVAL     : Intervals,
      TARGET_PORT            : {80},
      TARGET_TIMEOUT         : {5},
      ENABLE_HEALTH_ENDPOINT : BOOLEAN,
      HEALTH_PORT            : {8080} ]

\* The process has just started: the signal handlers are installed and
\* ContainerMonitor() is about to be called.
Start(e, t0) ==
    /\ env = e
    /\ pc = "load_config"
    /\ exit_code = None
    /\ running = FALSE
    /\ start_time = t0
    /\ last_heartbeat = None
    /\ target_status = EmptyDict
    /\ now = t0
    /\ current_time = 0
    /\ metrics = << >>
    /\ t_idx = 0
    /\ i = 0
    /\ in_try = FALSE
    /\ health_thread = FALSE
    /\ signal_at = "none"
    /\ put = None
    /\ batches = << >>
    /\ response = None
    /\ exposition = None
    /\ probed = None
    /\ last_attempt = None
    /\ scrape = None

Init == \E e \in Envs : Start(e, 0)

Next ==
    \/ load_config
    \/ init_client
    \/ run_begin
    \/ start_health_thread
    \/ send_heartbeat
    \/ sweep_begin
    \/ probe_target
    \/ submit_batch
    \/ sweep_return
    \/ loop_check
    \/ sleep
    \/ wake_check
    \/ process_exit
    \/ stop
    \/ signal_handler
    \/ unwind
    \/ health
    \/ metrics_begin
    \/ metrics_view

Spec == Init /\ [][Next]_vars

\* The environments of SpecBatch: valid credentials and one long target
\* list, so that a sweep builds more points than one call takes, with the
\* status endpoint disabled; and a list of one target with it enabled.
EnvsBatch ==
    [ AWS_CREDENTIALS        : {"valid"},
      MONITOR_TARGETS        : {Copies("h1", MaxBatchTargets)},
      HEARTBEAT_INTERVAL     : {1},
      TARGET_PORT            : {80},
      TARGET_TIMEOUT         : {5},
      ENABLE_HEALTH_ENDPOINT : {FALSE},
      HEALTH_PORT            : {8080} ]
    \cup
    [ AWS_CREDENTIALS        : {"valid"},
      MONITOR_TARGETS        : {Copies("h1", 1)},
      HEARTBEAT_INTERVAL     : {1},
      TARGET_PORT            : {80},
      TARGET_TIMEOUT         : {5},
      ENABLE_HEALTH_ENDPOINT : {TRUE},
      HEALTH_PORT            : {8080} ]

\* The process starts so late that the clock allows one tick of the loop.
InitBatch == \E e \in EnvsBatch : Start(e, MaxTime - 1)

SpecBatch == InitBatch /\ [][Next]_vars

\* TARGET_PORT, TARGET_TIMEOUT and HEALTH_PORT after int(): any integer is
\* accepted.
Ports == {0, 80, 70000}
Timeouts == {-1, 0, 5}
HealthPorts == {8080, 70000}

\* The environments of SpecConfig: valid credentials, every combination of
\* the numeric settings, at most one target.
EnvsConfig ==
    [ AWS_CREDENTIALS        : {"valid"},
      MONITOR_TARGETS        : { << >>, << "h1" >> },
      HEARTBEAT_INTERVAL     : Intervals,
      TARGET_PORT            : Ports,
      TARGET_TIMEOUT         : Timeouts,
      ENABLE_HEALTH_ENDPOINT : BOOLEAN,
      HEALTH_PORT            : HealthPorts ]

InitConfig == \E e \in EnvsConfig : Start(e, 0)

SpecConfig == InitConfig /\ [][Next]_vars

\* The steps of the main thread.
MainThread ==
    \/ load_config
    \/ init_client
    \/ run_begin
    \/ start_health_thread
    \/ send_heartbeat
    \/ sweep_begin
    \/ probe_target
    \/ submit_batch
    \/ sweep_return
    \/ loop_check
    \/ sleep
    \/ wake_check
    \/ process_exit
    \/ unwind

\* The environments of SpecLive: valid credentials and no repeated or
\* blank token in the target list.
EnvsLive ==
    [ AWS_CREDENTIALS        : {"valid"},
      MONITOR_TARGETS        : {<< >>, <<"h1">>, <<"h1", "h2">>},
      HEARTBEAT_INTERVAL     : Intervals,
      TARGET_PORT            : {80},
      TARGET_TIMEOUT         : {5},
      ENABLE_HEALTH_ENDPOINT : BOOLEAN,
      HEALTH_PORT            : {8080} ]

InitLive == \E e \in EnvsLive : Start(e, 0)

\* The main thread goes on as long as it has a step to take: every probe,
\* every sink call and every sleep returns.
SpecLive == InitLive /\ [][Next]_vars /\ WF_vars(MainThread)

\* ------------------------------------------------------------- properties

CeilDiv(n, d) == (n + d - 1) \div d

AllOk(calls) == \A k \in 1..Len(calls) : calls[k].ok

\* The send_target_metrics in progress has made its last put_metric_data call.
SweepDone == pc = "sweep_done"

\* C1: when a sweep has handed its N points to put_metric_data and no call
\* failed, exactly ceil(N/20) calls were made, each with 1 to 20 points.
C1_BatchCount ==
    (SweepDone /\ AllOk(batches)) =>
        /\ Len(batches) = CeilDiv(Len(metrics), BatchSize)
        /\ \A k \in 1..Len(batches) :
             /\ Len(batches[k].MetricData) >= 1
             /\ Len(batches[k].MetricData) <= BatchSize

\* C1 witness: a sweep of more than 20 points delivered in two calls.
C1_Witness ==
    /\ SweepDone
    /\ AllOk(batches)
    /\ Len(metrics) > BatchSize
    /\ Len(batches) = 2

\* C2: every batch of a sweep is attempted whatever happened to the earlier
\* ones: when the sweep is over, ceil(N/20) calls have been made.
C2_EveryBatchAttempted ==
    SweepDone => Len(batches) = CeilDiv(Len(metrics), BatchSize)

\* The entries of one sweep: every configured target has an entry and all
\* entries carry the timestamp of the same sweep.
WholeSweep(ts) ==
    /\ DOMAIN ts = Range(config.monitor_targets)
    /\ \A a, b \in DOMAIN ts : ts[a].last_check = ts[b].last_check

\* C3: the target_status of a /health response is the state before the
\* first sweep or the entries of one whole sweep, never a mix.
C3_NoHalfAppliedSweep ==
    (response # None /\ response[1].target_status # None) =>
        LET ts == response[1].target_status[1]
        IN  ts = EmptyDict \/ WholeSweep(ts)

FailedPut(p) == p # None /\ ~p[1].ok

\* C4: a put_metric_data call that fails, for the heartbeat or for a batch,
\* leaves the running flag as it was and control on its way to the loop
\* test; from there a running monitor goes on to the next sleep.
C4_FailureKeepsLoop ==
    [][ /\ FailedPut(put') =>
              /\ running' = running
              /\ pc' \in {"sweep", "sweep_done", "loop_check"}
        /\ (pc = "sweep_done" /\ pc' \notin {pc, "unwinding"}) => pc' = "loop_check"
        /\ (pc = "loop_check" /\ running /\ pc' \notin {pc, "unwinding"}) =>
              (pc' = "sleep" /\ running')
      ]_vars

\* C4 witness: in a tick of the loop, after every heartbeat so far failed,
\* a batch has just failed and the monitor is still running.
C4_Witness ==
    /\ FailedPut(put)
    /\ SweepDone
    /\ now > start_time
    /\ last_heartbeat = None
    /\ running

\* C5: once a termination signal has been delivered during the interval
\* sleep, the main thread is on its way out or the process has exited, and
\* no put_metric_data call is made.
C5_SignalInSleep ==
    signal_at = "sleep" =>
        /\ pc \in {"unwinding", "exited"}
        /\ put = None
        /\ ~running

\* C5 witness: the process has exited after a signal delivered in the sleep.
C5_Witness ==
    /\ signal_at = "sleep"
    /\ pc = "exited"
    /\ exit_code = Some(0)

\* C6: the keys of target_status are configured targets.
C6_KeysAreTargets ==
    DOMAIN target_status \subseteq Range(config.monitor_targets)

\* C6 witness: a sweep over two different targets has stored both.
C6_Witness ==
    /\ SweepDone
    /\ Cardinality(DOMAIN target_status) = 2

\* C7: after a completed sweep target_status has as many entries as there
\* are configured targets.
C7_SizeIsTargetCount ==
    SweepDone => Cardinality(DOMAIN target_status) = Len(config.monitor_targets)

\* The main thread is, or was when the signal interrupted it, at one of ps.
At(ps) == pc \in ps \/ (pc = "unwinding" /\ signal_at \in ps)

\* The states of the scheduler: Stopped before run() sets the flag and
\* after the loop has ended, Running while the flag is set, Stopping while
\* the flag is cleared and the loop has not ended yet.

\* run() has not set the flag yet.
NotStarted == At({"load_config", "init_client", "run"})

\* The loop has ended: the final Stopped.
LoopEnded == pc = "exited" \/ At({"stopped"})

SchedulerState ==
    IF NotStarted \/ LoopEnded
      THEN "Stopped"
      ELSE IF running THEN "Running" ELSE "Stopping"

\* C8: the scheduler moves only Stopped -> Running -> Stopping -> Stopped,
\* the final Stopped is never left, and no put_metric_data call is made in it.
C8_Lifecycle ==
    [][ /\ \/ SchedulerState' = SchedulerState
           \/ SchedulerState = "Stopped"  /\ SchedulerState' = "Running" /\ ~LoopEnded
           \/ SchedulerState = "Running"  /\ SchedulerState' = "Stopping"
           \/ SchedulerState = "Stopping" /\ SchedulerState' = "Stopped"
        /\ LoopEnded => (LoopEnded' /\ put' = None)
      ]_vars

\* C9: a /health response says "healthy" if the running flag is set and
\* "unhealthy" if it is not, whatever the probes and the sink did.
C9_HealthIsRunningFlag ==
    response # None =>
        response[1].status = (IF running THEN "healthy" ELSE "unhealthy")

\* C9 witness: a response that says healthy while no heartbeat was ever
\* delivered and a target is offline.
C9_Witness ==
    /\ response # None
    /\ response[1].status = "healthy"
    /\ last_heartbeat = None
    /\ now > start_time
    /\ \E h \in DOMAIN target_status : ~target_status[h].online

\* C10: with credentials that are missing or rejected the running flag is
\* never set, the status server is never started, no put_metric_data call
\* is made, and the failed check ends the process with status 1.
C10_BadCredentialsAreFatal ==
    env.AWS_CREDENTIALS # "valid" =>
        /\ ~running
        /\ ~health_thread
        /\ put = None
        /\ last_heartbeat = None
        /\ pc \in {"load_config", "init_client", "unwinding", "exited"}
        /\ (env.AWS_CREDENTIALS = "missing" => pc # "init_client")
        /\ (pc = "exited" /\ signal_at = "none") => exit_code = Some(1)

\* C10 witness: list_metrics rejected the credentials and the process exited.
C10_Witness ==
    /\ env.AWS_CREDENTIALS = "invalid"
    /\ pc = "exited"
    /\ signal_at = "none"
    /\ exit_code = Some(1)

\* A configuration the Configuration Model is to reject: an interval or a
\* timeout that is not positive, a port outside 1..65535.
InvalidConfig ==
    \/ config.heartbeat_interval <= 0
    \/ config.target_timeout <= 0
    \/ config.target_port \notin 1..65535
    \/ config.health_port \notin 1..65535

\* C11: with an invalid configuration the monitor never enters run(): the
\* running flag is never set, the loop is never entered and nothing is
\* emitted.
C11_InvalidConfigNeverRuns ==
    InvalidConfig =>
        /\ ~running
        /\ ~in_try
        /\ put = None
        /\ pc \in {"load_config", "init_client", "run", "unwinding", "exited"}

\* Every target of the list has been probed by the sweep in progress.
AllProbed == t_idx = Len(config.monitor_targets) + 1

\* C12: a probe never raises: whatever the connection attempt came to, the
\* target's entry is stored, with online false unless the connection was
\* made, the sweep goes on, and a sweep that reaches its emission has
\* probed every target.
C12_ProbeNeverRaises ==
    /\ probed # None =>
          /\ pc \in {"probe", "emit"}
          /\ probed[1].target \in DOMAIN target_status
          /\ target_status[probed[1].target].online = (probed[1].outcome = "connected")
          /\ target_status[probed[1].target].last_check = current_time
    /\ pc \in {"emit", "sweep_done"} => AllProbed

\* C12 witness: the attempt on the first of two targets raised and the
\* sweep is about to probe the second.
C12_Witness ==
    /\ probed # None
    /\ probed[1].outcome = "raised"
    /\ Len(config.monitor_targets) = 2
    /\ pc = "probe"
    /\ t_idx = 2

\* C13: a termination signal flips the running flag, lets the work of the
\* tick in flight finish and ends the process with status 0: a process that
\* exited after a signal that arrived during a sweep has probed every
\* target of that sweep and has begun the emission of its points.
C13_SignalLetsTickFinish ==
    (pc = "exited" /\ signal_at # "none") =>
        /\ exit_code = Some(0)
        /\ ~running
        /\ signal_at \in {"probe", "emit"} =>
              /\ AllProbed
              /\ batches # << >>

\* The state of the monitor that a request to the status server could
\* change.
MonitorState ==
    << pc, exit_code, running, start_time, last_heartbeat, last_attempt, target_status,
       now, current_time, metrics, t_idx, i, in_try, health_thread, signal_at, batches >>

\* C14: a /health response carries the mapping as it stands and leaves the
\* monitor's state as it was, two requests in a row return the same
\* target_status, and the mapping changes only when the sweep probes a
\* target.
C14_HealthReadIsPure ==
    [][ /\ response' # None =>
              /\ UNCHANGED MonitorState
              /\ config.monitor_targets # << >> =>
                    response'[1].target_status = Some(target_status)
              /\ response # None =>
                    response'[1].target_status = response[1].target_status
        /\ target_status' # target_status => pc = "probe" ]_vars

\* C14 witness: a response that carries the stored result of a sweep, served
\* while the main thread sleeps.
C14_Witness ==
    /\ response # None
    /\ pc = "sleep"
    /\ response[1].target_status = Some(target_status)
    /\ DOMAIN target_status # {}

\* C15: with the status endpoint disabled no status-server thread exists
\* and neither /health nor /metrics is ever answered.
C15_ServerOnlyIfEnabled ==
    ~config.enable_health_endpoint =>
        /\ ~health_thread
        /\ ~Serving
        /\ response = None
        /\ exposition = None

\* C15 witness: the monitor sleeps between two ticks with the endpoint
\* disabled and no status-server thread.
C15_Witness ==
    /\ ~config.enable_health_endpoint
    /\ pc = "sleep"
    /\ running
    /\ ~health_thread

\* The positions of the points of the given name built for host h by the
\* sweep in progress.
PointsOf(name, h) ==
    {k \in 1..Len(metrics) : metrics[k].MetricName = name /\ metrics[k].TargetIP = Some(h)}

\* The configured targets whose probe of this sweep was online.
OnlineTargets ==
    {h \in Range(config.monitor_targets) \cap DOMAIN target_status : target_status[h].online}

\* C16: when a sweep has built its points, every configured target has
\* exactly one TargetStatus point, of value 1 if its probe was online and 0
\* otherwise, a TargetResponseTime point if and only if it was online, and
\* the points number T + K for T targets of which K are online.
C16_PointsPerTarget ==
    (pc \in {"emit", "sweep_done"} /\ AllProbed) =>
        /\ \A h \in Range(config.monitor_targets) :
              /\ Cardinality(PointsOf("TargetStatus", h)) = 1
              /\ \A k \in PointsOf("TargetStatus", h) :
                    metrics[k].Value = IF h \in OnlineTargets THEN 1 ELSE 0
              /\ Cardinality(PointsOf("TargetResponseTime", h)) =
                    IF h \in OnlineTargets THEN 1 ELSE 0
        /\ Len(metrics) = Cardinality(Range(config.monitor_targets))
                            + Cardinality(OnlineTargets)

\* The main thread is inside send_target_metrics.
InSweep == pc \in {"probe", "emit", "sweep_done"}

\* C17: nothing is carried from one tick to the next: every point handed to
\* the sink is stamped with the time of the tick that submits it, the list
\* of a sweep holds only points of that sweep's own probes, a failed call
\* is the last call of its sweep, and no points outlive the sweep.
C17_NoCrossTickRetry ==
    /\ put # None =>
          \A k \in 1..Len(put[1].MetricData) : put[1].MetricData[k].Timestamp = now
    /\ InSweep =>
          /\ current_time = now
          /\ Len(metrics) <= 2 * (t_idx - 1)
          /\ \A k \in 1..Len(metrics) : metrics[k].Timestamp = now
          /\ \A k \in 1..Len(batches) :
                ~batches[k].ok => (k = Len(batches) /\ pc = "sweep_done")
    /\ ~InSweep /\ signal_at = "none" => (metrics = << >> /\ batches = << >>)

\* C17 witness: in a tick after the first, with the stored results of the
\* earlier sweep at hand and no heartbeat delivered so far, a batch of
\* target points is handed to the sink.
C17_Witness ==
    /\ put # None
    /\ now > start_time
    /\ last_heartbeat = None
    /\ pc = "sweep_done"
    /\ put[1].MetricData[1].MetricName = "TargetStatus"
    /\ \E h \in DOMAIN target_status : target_status[h].last_check = now

\* C18: the target_status of a /health response is null exactly when no
\* target is configured; with a target configured it is the mapping as it
\* stands, empty before the first probe.
C18_NullIffNoTargets ==
    response # None =>
        /\ response[1].target_status = None <=> config.monitor_targets = << >>
        /\ config.monitor_targets # << >> =>
              /\ response[1].target_status = Some(target_status)
              /\ (pc \in {"heartbeat", "sweep"} /\ now = start_time) =>
                    response[1].target_status = Some(EmptyDict)

\* C18 witness: a response served before the first sweep, with a target
\* configured, carries the empty mapping.
C18_Witness ==
    /\ response # None
    /\ config.monitor_targets # << >>
    /\ pc = "sweep"
    /\ response[1].target_status = Some(EmptyDict)

\* The positions at which host h stands in the loaded target list.
PositionsOf(h) ==
    {k \in 1..Len(config.monitor_targets) : config.monitor_targets[k] = h}

\* C19: the target list a running monitor has loaded holds no host twice,
\* and a sweep builds at most one TargetStatus point per host.
C19_TargetsDeduplicated ==
    running =>
        /\ \A h \in Hosts : Cardinality(PositionsOf(h)) <= 1
        /\ \A h \in Hosts : Cardinality(PointsOf("TargetStatus", h)) <= 1

\* The mapping has an entry for every configured target.
Swept == DOMAIN target_status = Range(config.monitor_targets)

\* C20 as stated: the first sleep comes after one heartbeat and one full
\* sweep, and a /health response that reports healthy with targets
\* configured never carries the empty mapping.
C20_ReadyNeverEmpty ==
    /\ pc = "sleep" => (last_attempt # None /\ Swept)
    /\ (response # None /\ config.monitor_targets # << >>
           /\ response[1].status = "healthy") =>
          response[1].target_status # Some(EmptyDict)

\* C20 amended: the periodic loop is entered, and so the first sleep taken,
\* only after one heartbeat and one full sweep; a /health response served
\* from then on has an entry for every configured target.
C20_SweptBeforeLoop ==
    in_try =>
        /\ last_attempt # None
        /\ Swept
        /\ (response # None /\ config.monitor_targets # << >>) =>
              /\ response[1].target_status # None
              /\ DOMAIN response[1].target_status[1] = Range(config.monitor_targets)

\* C20 witness: a /health response served during the first sleep, with
\* targets configured and every one of them in the mapping.
C20_Witness ==
    /\ pc = "sleep"
    /\ now = start_time
    /\ response # None
    /\ response[1].status = "healthy"
    /\ config.monitor_targets # << >>
    /\ response[1].target_status = Some(target_status)
    /\ Swept

\* C21: a stop request interrupts an interval sleep in progress: while the
\* scheduler sleeps with the stop flag set, the sleep does not run to the
\* end of its interval (the clock does not advance under it), whether the
\* flag was set by the signal handler or by stop() on another thread.
C21_StopInterruptsSleep ==
    [][ (pc = "sleep" /\ ~running /\ config.heartbeat_interval > 0) => now' = now ]_vars

\* C22: in the loop a tick follows a sleep and a stop-flag check that found
\* the monitor running; the tick's heartbeat is one sink call carrying
\* exactly ContainerHeartbeat = 1 and ContainerUptime, made before any
\* target is probed; and the sweep follows if and only if a target is
\* configured.
C22_TickOrder ==
    [][ /\ (pc' = "wake_check" /\ pc # "wake_check") => pc = "sleep"
        /\ (in_try /\ pc' = "heartbeat" /\ pc # "heartbeat") =>
              (pc = "wake_check" /\ running)
        /\ (pc = "heartbeat" /\ pc' \notin {"heartbeat", "unwinding"}) =>
              /\ put' # None
              /\ Len(put'[1].MetricData) = 2
              /\ put'[1].MetricData[1].MetricName = "ContainerHeartbeat"
              /\ put'[1].MetricData[1].Value = 1
              /\ put'[1].MetricData[2].MetricName = "ContainerUptime"
              /\ put'[1].MetricData[2].Value = now - start_time
              /\ t_idx = 0 /\ metrics = << >>
              /\ pc' = IF config.monitor_targets # << >> THEN "sweep" ELSE "loop_check"
        /\ (pc' = "sweep" /\ pc # "sweep") => pc = "heartbeat"
        /\ (pc' = "probe" /\ pc # "probe") =>
              (pc = "sweep" /\ config.monitor_targets # << >>) ]_vars

\* C22 witness: in a tick of the loop the heartbeat pair has just been
\* handed to the sink and the sweep is about to start.
C22_Witness ==
    /\ in_try
    /\ pc = "sweep"
    /\ put # None
    /\ put[1].MetricData[1].MetricName = "ContainerHeartbeat"
    /\ now > start_time

\* The clock of the model is at its bound and the main thread is in a sleep
\* that the bound keeps from returning.
ClockExhausted ==
    /\ pc = "sleep"
    /\ now = MaxTime
    /\ ~SleepRaises(config.heartbeat_interval)

\* C23: once a stop has been requested of a started scheduler, whichever
\* phase it is in, the loop ends with the running flag false; a cleared flag
\* seen at the top of the loop leads out of it without another sleep.
C23_StopLeadsToStopped ==
    /\ (SchedulerState = "Stopping") ~> ((LoopEnded /\ ~running) \/ ClockExhausted)
    /\ [][ (pc = "loop_check" /\ ~running) => pc' # "sleep" ]_vars

\* C23 witness: the loop has ended with the flag false after a stop() call
\* from another thread (no signal was delivered), before the first sleep
\* returned and with a sweep stored.
C23_Witness ==
    /\ pc = "stopped"
    /\ ~running
    /\ signal_at = "none"
    /\ in_try
    /\ now = start_time
    /\ DOMAIN target_status # {}

\* The targets the sweep in progress has probed so far.
ProbedSoFar == {config.monitor_targets[k] : k \in 1..(t_idx - 1)}

\* C24: a sweep probes every configured target exactly once: a probe is
\* never of a target already probed in the sweep and a completed sweep has
\* probed them all; the entry stored by a probe is made of that probe's own
\* outcome and the entries of the other targets are left as they were.
C24_ProbedOnceIndependently ==
    /\ [](pc \in {"emit", "sweep_done"} => AllProbed)
    /\ [][ probed' # None =>
             LET h == probed'[1].target
             IN  /\ h \notin ProbedSoFar
                 /\ target_status'[h] =
                       StatusEntry(probed'[1].outcome = "connected", 0, current_time)
                 /\ \A g \in DOMAIN target_status \ {h} :
                       target_status'[g] = target_status[g] ]_vars

\* The part of the monitor's state that the status server reads.
SharedStatusState == << start_time, last_heartbeat, running, target_status >>

\* C25: serving /health or /metrics leaves start_time, last_heartbeat, the
\* running flag and target_status as they were; last_heartbeat is written
\* only by the heartbeat step and target_status only by a probe of the
\* sweep.
C25_SingleWriter ==
    [][ /\ (response' # None \/ exposition' # None) => UNCHANGED SharedStatusState
        /\ last_heartbeat' # last_heartbeat => (pc = "heartbeat" /\ put' # None)
        /\ target_status' # target_status => (pc = "probe" /\ probed' # None)
        /\ start_time' = start_time ]_vars

\* C25 witness: /metrics has just been served from a state with a delivered
\* heartbeat and a stored sweep.
C25_Witness ==
    /\ exposition # None
    /\ last_heartbeat # None
    /\ DOMAIN target_status # {}
    /\ running

\* C26: a /metrics request never fails because the main thread changes
\* self.target_status between the steps of the handler's iteration: every
\* /metrics request is answered with status 200.
C26_ScrapeNeverFails ==
    exposition # None => exposition[1].status = 200

\* C27: when a sink call of a sweep has failed, target_status nevertheless
\* holds, for every configured target, the result of that sweep's probe: an
\* entry checked at the sweep's time whose online flag is the value of a
\* TargetStatus point the sweep built for the target.
C27_StatusSurvivesSinkFailure ==
    (pc = "sweep_done" /\ ~AllOk(batches)) =>
        /\ Swept
        /\ \A h \in Range(config.monitor_targets) :
              /\ target_status[h].last_check = current_time
              /\ \E k \in PointsOf("TargetStatus", h) :
                    metrics[k].Value = IF target_status[h].online THEN 1 ELSE 0

\* C27 witness: the sweep of a later tick ends with a failed sink call and
\* a target it found online.
C27_Witness ==
    /\ pc = "sweep_done"
    /\ ~AllOk(batches)
    /\ now > start_time
    /\ \E h \in DOMAIN target_status :
          target_status[h].online /\ target_status[h].last_check = now

\* C28: last_heartbeat changes only in a heartbeat whose sink call
\* succeeded, to the time of that heartbeat; a heartbeat whose call failed
\* leaves it as it was, absent included; and it never moves backwards.
C28_StampOnlyOnSuccess ==
    [][ /\ last_heartbeat' # last_heartbeat =>
              /\ pc = "heartbeat"
              /\ put' # None
              /\ put'[1].ok
              /\ last_heartbeat' = Some(now)
        /\ (pc = "heartbeat" /\ put' # None /\ ~put'[1].ok) =>
              last_heartbeat' = last_heartbeat
        /\ last_heartbeat # None =>
              /\ last_heartbeat' # None
              /\ last_heartbeat'[1] >= last_heartbeat[1] ]_vars

\* C28 witness: a heartbeat has just failed and last_heartbeat still holds
\* the time of an earlier tick's delivered heartbeat.
C28_Witness ==
    /\ put # None
    /\ ~put[1].ok
    /\ put[1].MetricData[1].MetricName = "ContainerHeartbeat"
    /\ last_heartbeat # None
    /\ last_heartbeat[1] < now

\* C29: with targets configured, a heartbeat whose sink call failed is
\* followed by the sweep of the same tick just as one that succeeded, and
\* the sweep, once due, starts probing.
C29_SweepAfterFailedHeartbeat ==
    [][ /\ (pc = "heartbeat" /\ put' # None /\ config.monitor_targets # << >>) =>
              pc' = "sweep"
        /\ (pc = "sweep" /\ pc' \notin {"sweep", "unwinding"}) =>
              (pc' = "probe" /\ t_idx' = 1) ]_vars

\* C29 witness: the sweep of a tick has probed every target although no
\* heartbeat, this tick's included, was ever delivered.
C29_Witness ==
    /\ pc = "sweep_done"
    /\ last_heartbeat = None
    /\ last_attempt = Some(now)
    /\ config.monitor_targets # << >>
    /\ AllProbed
    /\ \A h \in Range(config.monitor_targets) : target_status[h].last_check = now

\* C30: however the loop of run() ended, the running flag is false
\* afterwards, and a /health response served after the loop has ended says
\* "unhealthy".
C30_EndedMeansUnhealthy ==
    LoopEnded =>
        /\ ~running
        /\ response # None => response[1].status = "unhealthy"

\* C30 witness: /health is served after a loop that no stop request ended:
\* time.sleep raised, the except clause logged it and the finally clause
\* cleared the flag.
C30_Witness ==
    /\ pc = "stopped"
    /\ SleepRaises(config.heartbeat_interval)
    /\ signal_at = "none"
    /\ response # None
    /\ response[1].status = "unhealthy"

====
